---------------------------- MODULE Spec2Model ----------------------------
(***************************************************************************)
(* A model of bfchatattempt.py: the Brainfuck engine, the transform        *)
(* protocol built on it, and the chat server's session registry with its   *)
(* accept loop, per-connection handlers and shutdown.                      *)
(*                                                                         *)
(* Text is a sequence of code points.  Python indices are 0-based; the     *)
(* instruction at Python index ip is code[ip + 1] here.                    *)
(***************************************************************************)
EXTENDS Integers, Sequences, FiniteSets, TLC

(***************************************************************************)
(* Bounds of the model.                                                    *)
(***************************************************************************)
MaxLen == 3          \* longest text drawn for the transform protocol
MaxClients == 3      \* connections the accept loop takes
MaxFrames == 1       \* frames the peers send, over all connections
MaxResets == 1       \* peers that reset their connection
MaxRaceFrames == 2   \* frames in flight when two handlers share the engine

(***************************************************************************)
(* ImprovedBrainfuckEngine                                                 *)
(***************************************************************************)
TapeLen == 1000
DefaultMaxSteps == 50000
BfMaxSteps == 5000              \* max_steps of the /bf command

Reverse(s) == [i \in 1..Len(s) |-> s[Len(s) + 1 - i]]

Min2(a, b) == IF a < b THEN a ELSE b
Max2(a, b) == IF a > b THEN a ELSE b

\* reset(): a fresh tape, pointer and buffers.
reset ==
    [memory        |-> [i \in 0..(TapeLen - 1) |-> 0],
     pointer       |-> 0,
     input_buffer  |-> <<>>,
     output_buffer |-> <<>>]

\* load_input(data) for a str: the code points, reversed.
load_input(bf, data) == [bf EXCEPT !.input_buffer = Reverse(data)]

\* A forward scan that skips nothing.
ScanForward_stay(code, ip, bc) == ip

\* The forward scan of '[' on a zero cell: from Python index ip, with
\* bracket_count bc, to the index at which the while loop stops.
RECURSIVE ScanForward(_, _, _)
ScanForward(code, ip, bc) ==
    IF ip < Len(code) /\ bc > 0
    THEN ScanForward(code, ip + 1,
                     IF code[ip + 1] = "[" THEN bc + 1
                     ELSE IF code[ip + 1] = "]" THEN bc - 1 ELSE bc)
    ELSE ip

\* A backward scan that tests the boundary one position late, reading
\* code[-1] -- the last instruction, in Python -- before it stops.
RECURSIVE ScanBackward_past(_, _, _)
ScanBackward_past(code, ip, bc) ==
    IF ip >= -1 /\ bc > 0
    THEN LET c == code[IF ip = -1 THEN Len(code) ELSE ip + 1]
         IN ScanBackward_past(code, ip - 1,
                              IF c = "]" THEN bc + 1
                              ELSE IF c = "[" THEN bc - 1 ELSE bc)
    ELSE ip

\* A backward scan that lands just after the '[' it stops at.
RECURSIVE ScanBackward_after(_, _, _)
ScanBackward_after(code, ip, bc) ==
    IF ip >= 0 /\ bc > 0
    THEN ScanBackward_after(code, ip - 1,
                            IF code[ip + 1] = "]" THEN bc + 1
                            ELSE IF code[ip + 1] = "[" THEN bc - 1 ELSE bc)
    ELSE ip + 1

\* The backward scan of ']' on a non-zero cell.
RECURSIVE ScanBackward(_, _, _)
ScanBackward(code, ip, bc) ==
    IF ip >= 0 /\ bc > 0
    THEN ScanBackward(code, ip - 1,
                      IF code[ip + 1] = "]" THEN bc + 1
                      ELSE IF code[ip + 1] = "[" THEN bc - 1 ELSE bc)
    ELSE ip

\* One pass of the while loop of execute: x = [bf, ip, steps].
ExecStep(code, x) ==
    LET bf  == x.bf
        cmd == code[x.ip + 1]
        p   == bf.pointer
        cur == bf.memory[p]
        bf2 == CASE cmd = ">" -> [bf EXCEPT !.pointer = Min2(p + 1, TapeLen - 1)]
                 [] cmd = "<" -> [bf EXCEPT !.pointer = Max2(p - 1, 0)]
                 [] cmd = "+" -> [bf EXCEPT !.memory[p] = (cur + 1) % 256]
                 [] cmd = "-" -> [bf EXCEPT !.memory[p] = (cur + 255) % 256]
                 [] cmd = "." -> [bf EXCEPT !.output_buffer = Append(@, cur)]
                 [] cmd = "," ->
                      IF bf.input_buffer # <<>>
                      THEN [bf EXCEPT
                              !.memory[p] = bf.input_buffer[Len(bf.input_buffer)],
                              !.input_buffer = SubSeq(@, 1, Len(@) - 1)]
                      ELSE [bf EXCEPT !.memory[p] = 0]
                 [] OTHER -> bf
        ip2 == CASE cmd = "[" /\ cur = 0  -> ScanForward(code, x.ip + 1, 1) - 1
                 [] cmd = "]" /\ cur # 0  -> ScanBackward(code, x.ip - 1, 1)
                 [] OTHER -> x.ip
    IN [bf |-> bf2, ip |-> ip2 + 1, steps |-> x.steps + 1]

\* At most n passes of `while ip < len(code) and steps < max_steps`, taken
\* half by half so that a long run nests only a few calls deep.
RECURSIVE ExecPasses(_, _, _, _)
ExecPasses(code, max_steps, x, n) ==
    IF ~(x.ip < Len(code) /\ x.steps < max_steps) THEN x
    ELSE IF n = 1 THEN ExecStep(code, x)
    ELSE LET half == ExecPasses(code, max_steps, x, n \div 2)
         IN ExecPasses(code, max_steps, half, n - (n \div 2))

\* The whole loop: every pass counts a step, so max_steps passes end it.
ExecLoop(code, max_steps, x) == ExecPasses(code, max_steps, x, max_steps)

\* execute(code, max_steps): the engine afterwards and the returned flag.
execute(bf, code, max_steps) ==
    LET x == ExecLoop(code, max_steps,
                      [bf |-> [bf EXCEPT !.output_buffer = <<>>],
                       ip |-> 0, steps |-> 0])
    IN [bf |-> x.bf, ok |-> x.steps < max_steps]

\* An output filter that stops one short, at 126.
get_output_string_short(bf) ==
    SelectSeq(bf.output_buffer, LAMBDA b : 0 <= b /\ b < 127)

\* get_output_string(): the output bytes in 0..127, as characters.
get_output_string(bf) ==
    SelectSeq(bf.output_buffer, LAMBDA b : 0 <= b /\ b <= 127)

(***************************************************************************)
(* ImprovedBrainfuckChatProtocol                                           *)
(***************************************************************************)
encrypt_program == <<",", "[", "+", ".", ",", "]">>
decrypt_program == <<",", "[", "-", ".", ",", "]">>

\* self.bf.reset(); self.bf.load_input(text); self.bf.execute(program):
\* the engine afterwards and the flag execute returned.
run_program(text, program) ==
    execute(load_input(reset, text), program, DefaultMaxSteps)

\* result = self.bf.get_output_string(); `return result if result else
\* text` when execute returned True, `return text` otherwise.
result_or(bf, ok, text) ==
    LET result == get_output_string(bf)
    IN IF ok /\ result # <<>> THEN result ELSE text

encrypt_message(message) ==
    LET r == run_program(message, encrypt_program)
    IN result_or(r.bf, r.ok, message)

decrypt_message(encrypted_message) ==
    LET r == run_program(encrypted_message, decrypt_program)
    IN result_or(r.bf, r.ok, encrypted_message)

validate_message(message) ==
    /\ message # <<>>
    /\ Len(message) <= 1000
    /\ \A i \in 1..Len(message) : message[i] >= 32 /\ message[i] <= 126

(***************************************************************************)
(* ImprovedChatServer: texts, messages and stack frames.                   *)
(***************************************************************************)
Ids == 1..MaxClients            \* k stands for the session "Client_k"
MainThread == 0                 \* the thread running start()
Threads == 0..MaxClients        \* handler thread k serves Client_k
NoThread == -1

\* f"Client_{k}" and f"{sender_id}: {message}" as code points.
ClientIdText(k) == <<67, 108, 105, 101, 110, 116, 95, 48 + k>>
broadcast_msg(sender_id, message) == ClientIdText(sender_id) \o <<58, 32>> \o message

TextHi    == <<104, 105>>                        \* "hi"
TextUsers == <<47, 117, 115, 101, 114, 115>>     \* "/users"
TextHelp  == <<47, 104, 101, 108, 112>>          \* "/help"
TextYo    == <<121, 111>>                        \* "yo"
TextHello == <<72, 101, 108, 108, 111, 33>>      \* "Hello!", the input of /bf
TextBfPrefix == <<47, 98, 102, 32>>              \* "/bf "
TextBf    == TextBfPrefix \o <<44, 91, 45, 46, 44, 93>>   \* "/bf ,[-.,]"

\* command.startswith('/bf ') and bf_code = command[4:], as the sequence of
\* instructions execute reads; a character that is no instruction is
\* passed over by execute, and stands here as "?".
IsBfCommand(command) ==
    Len(command) >= 4 /\ SubSeq(command, 1, 4) = TextBfPrefix

InstructionOf(c) ==
    CASE c = 62 -> ">" [] c = 60 -> "<" [] c = 43 -> "+" [] c = 45 -> "-"
      [] c = 46 -> "." [] c = 44 -> "," [] c = 91 -> "[" [] c = 93 -> "]"
      [] OTHER -> "?"

bf_code(command) ==
    [k \in 1..(Len(command) - 4) |-> InstructionOf(command[k + 4])]

\* What a peer puts on the wire: the client's encrypt_message of a chat line
\* and of two commands, and a raw frame that decrypts to a control character.
Frames == {encrypt_message(TextHi), encrypt_message(TextUsers),
           encrypt_message(TextHelp), <<32>>}

Msg(kind, who, txt) == [kind |-> kind, who |-> who, txt |-> txt]
NoMsg == Msg("none", 0, <<>>)

\* A stack frame: the position in a function, its client_id argument (the
\* sender or the excluded id for the broadcasts), its message, the loop
\* index and clients_to_remove of a fan-out, the targets the fan-out has
\* called send on, the value the last send_to_client returned, and the flag
\* the last execute returned.
Frame(pc, cid, msg) ==
    [pc |-> pc, cid |-> cid, msg |-> msg, idx |-> 1, rem |-> <<>>,
     tried |-> <<>>, ret |-> "none", ok |-> FALSE]

(***************************************************************************)
(* State.                                                                  *)
(***************************************************************************)
VARIABLES
    rt_msg,          \* the text a round trip starts from
    rt_encrypted,    \* encrypt_message(rt_msg), once computed
    rt_decrypted,    \* decrypt_message(rt_encrypted), once computed
    rt_pc,           \* "idle", "start", "encrypted", "done"
    running,         \* self.running
    client_counter,  \* self.client_counter
    clients,         \* the keys of self.clients, in insertion order
    active,          \* client_info['active'] of the session object of each id
    closes,          \* how often close() was called on each session's socket
    lock,            \* the thread holding self.lock, or NoThread
    stack,           \* the call stack of each thread
    broken,          \* sessions whose peer has reset the connection
    recvd,           \* frames the handlers have received
    outbox,          \* what was sent, successfully, on each session's socket
    issued,          \* the counters of the identifiers handed out, in order
    wire,            \* the frames each peer has sent, in order
    bf,              \* self.protocol.bf, the engine all server threads share
    ex,              \* one call of execute on bf, pass by pass of its loop
    cl               \* one message from the server's send to the client's display

rtVars == <<rt_msg, rt_encrypted, rt_decrypted, rt_pc, ex, cl>>

srvVars == <<running, client_counter, clients, active, closes, lock, stack,
             broken, recvd, outbox, issued, wire, bf>>

vars == <<rt_msg, rt_encrypted, rt_decrypted, rt_pc, running, client_counter,
          clients, active, closes, lock, stack, broken, recvd, outbox, issued,
          wire, bf, ex, cl>>

\* The server after __init__ and the first lines of start(): listening,
\* no session, no handler thread.
SrvInit ==
    /\ running = TRUE
    /\ client_counter = 0
    /\ clients = <<>>
    /\ active = [i \in Ids |-> FALSE]
    /\ closes = [i \in Ids |-> 0]
    /\ lock = NoThread
    /\ stack = [t \in Threads |->
                  IF t = MainThread THEN <<Frame("m_accept", 0, NoMsg)>>
                  ELSE <<Frame("h_unstarted", t, NoMsg)>>]
    /\ broken = {}
    /\ recvd = 0
    /\ outbox = [i \in Ids |-> <<>>]
    /\ issued = <<>>
    /\ wire = [i \in Ids |-> <<>>]
    /\ bf = reset

\* What is known of the last pass of the loop of execute: the instruction,
\* its index, the cell it found, and the indices lo..hi its bracket scan
\* read (none when lo > hi).
NoPass == [cmd |-> "", at |-> 0, cell |-> 0, lo |-> 0, hi |-> -1]

\* No call of execute is being followed.
ExIdle ==
    [pc |-> "idle", code |-> <<>>, input |-> <<>>, c0 |-> 0, max_steps |-> 0,
     ip |-> 0, steps |-> 0, ok |-> FALSE, visits |-> <<>>, last |-> NoPass]

\* No message is being followed to a client.
ClIdle ==
    [pc |-> "idle", msg |-> [kind |-> "none", who |-> 0, txt |-> <<>>],
     message |-> <<>>, sent |-> <<>>, data |-> <<>>, message_to_display |-> <<>>]

RtIdle ==
    /\ rt_msg = <<>>
    /\ rt_encrypted = <<>>
    /\ rt_decrypted = <<>>
    /\ rt_pc = "idle"
    /\ ex = ExIdle
    /\ cl = ClIdle

(***************************************************************************)
(* The round trip of test_bf_functions, over bounded texts.                *)
(***************************************************************************)
\* Code points the texts are drawn from: both ends of [0,126], the first
\* value above it, a letter, and values the output filter drops.
Alphabet == {0, 1, 65, 126, 127, 200}

Texts == UNION {[1..n -> Alphabet] : n \in 0..MaxLen}

RtInit ==
    /\ rt_msg \in Texts
    /\ rt_encrypted = <<>>
    /\ rt_decrypted = <<>>
    /\ rt_pc = "start"
    /\ ex = ExIdle
    /\ cl = ClIdle
    /\ SrvInit

RtEncrypt ==
    /\ rt_pc = "start"
    /\ rt_encrypted' = encrypt_message(rt_msg)
    /\ rt_pc' = "encrypted"
    /\ UNCHANGED <<rt_msg, rt_decrypted, ex, cl>>
    /\ UNCHANGED srvVars

RtDecrypt ==
    /\ rt_pc = "encrypted"
    /\ rt_decrypted' = decrypt_message(rt_encrypted)
    /\ rt_pc' = "done"
    /\ UNCHANGED <<rt_msg, rt_encrypted, ex, cl>>
    /\ UNCHANGED srvVars

RtNext == RtEncrypt \/ RtDecrypt

RtSpec == RtInit /\ [][RtNext]_vars

InRange(s, lo, hi) == \A i \in 1..Len(s) : s[i] >= lo /\ s[i] <= hi

\* C9 (as stated): every text over [0,126], code point 0 allowed anywhere,
\* is returned unchanged by decode after encode.
C9_RoundTripAll ==
    (rt_pc = "done" /\ InRange(rt_msg, 0, 126)) => rt_decrypted = rt_msg

NoZeroAfterFirst(s) == \A i \in 2..Len(s) : s[i] # 0

\* C9 (amended): every text over [0,126] in which code point 0 occurs at
\* most as the first character is returned unchanged by decode after encode.
C9_RoundTrip ==
    (rt_pc = "done" /\ InRange(rt_msg, 0, 126) /\ NoZeroAfterFirst(rt_msg))
        => rt_decrypted = rt_msg

C9_Witness ==
    /\ rt_pc = "done"
    /\ Len(rt_msg) = 3
    /\ rt_msg[1] = 126 /\ rt_msg[2] = 1 /\ rt_msg[3] = 65
    /\ rt_encrypted = <<127, 2, 66>>
    /\ rt_decrypted = rt_msg


(***************************************************************************)
(* ImprovedChatServer: helpers.                                            *)
(***************************************************************************)
Top(t) == stack[t][Len(stack[t])]
SetTop(s, f) == [s EXCEPT ![Len(s)] = f]
Goto(s, p) == [s EXCEPT ![Len(s)].pc = p]
\* A call: the caller resumes at p once the callee's frame f is popped.
Call(s, p, f) == Append(Goto(s, p), f)
Return(s) == SubSeq(s, 1, Len(s) - 1)
ReturnValue(s, v) == [Return(s) EXCEPT ![Len(s) - 1].ret = v]

Keys == {clients[k] : k \in 1..Len(clients)}
Remove(seq, id) == SelectSeq(seq, LAMBDA c : c # id)

\* socket.send raises on a connection the peer has reset and on a socket
\* that was closed; recv (and settimeout) raise in the same cases.
SendFails(i) == i \in broken \/ closes[i] > 0
RecvFails(i) == i \in broken \/ closes[i] > 0

\* `with self.lock:` -- the positions that wait for the lock, and where each
\* continues once it has it.
BodyOf(l) ==
    CASE l = "m_reg_acq"    -> "m_reg"
      [] l = "cs_acq"       -> "cs_body"
      [] l = "bm_acq"       -> "bm_loop"
      [] l = "bsm_acq"      -> "bsm_loop"
      [] l = "st_acq"       -> "st_body"
      [] l = "dc_acq"       -> "dc_body"
      [] l = "hc_users_acq" -> "hc_users"
      [] OTHER              -> "none"

\* threading.Lock is not reentrant: acquire blocks while any thread, the
\* caller included, holds it.
AcquireLock(t) ==
    /\ BodyOf(Top(t).pc) # "none"
    /\ lock = NoThread
    /\ lock' = t
    /\ stack' = [stack EXCEPT ![t] = Goto(@, BodyOf(Top(t).pc))]
    /\ UNCHANGED <<running, client_counter, clients, active, closes, broken, recvd, outbox, issued, wire, bf>>
    /\ UNCHANGED rtVars

(***************************************************************************)
(* start(): the accept loop.                                               *)
(***************************************************************************)
\* server_socket.accept() returns a connection.
Accept ==
    /\ Top(MainThread).pc = "m_accept"
    /\ running
    /\ Len(issued) < MaxClients
    /\ stack' = [stack EXCEPT ![MainThread] = Goto(@, "m_reg_acq")]
    /\ UNCHANGED <<running, client_counter, clients, active, closes, lock, broken, recvd, outbox, issued, wire, bf>>
    /\ UNCHANGED rtVars

\* A counter that starts over instead of growing.
new_counter_wraps(counter) == (counter % 2) + 1

\* self.client_counter += 1
new_counter(counter) == counter + 1

\* The body of `with self.lock:` in start(): the next identifier and the
\* new entry of self.clients.
Register ==
    /\ Top(MainThread).pc = "m_reg"
    /\ LET id == new_counter(client_counter) IN
         /\ client_counter' = id
         /\ clients' = IF id \in Keys THEN clients ELSE Append(clients, id)
         /\ active' = [active EXCEPT ![id] = TRUE]
         /\ issued' = Append(issued, id)
         /\ stack' = [stack EXCEPT ![MainThread] =
                        SetTop(@, Frame("m_welcome", id, NoMsg))]
    /\ lock' = NoThread
    /\ UNCHANGED <<running, closes, broken, recvd, outbox, wire, bf>>
    /\ UNCHANGED rtVars

\* client_socket.send(welcome): an exception leaves the try block for the
\* handler of line 208 and the loop goes on to the next accept.
Welcome ==
    /\ Top(MainThread).pc = "m_welcome"
    /\ LET id == Top(MainThread).cid IN
         IF SendFails(id)
         THEN /\ stack' = [stack EXCEPT ![MainThread] =
                             SetTop(@, Frame("m_accept", 0, NoMsg))]
              /\ outbox' = outbox
         ELSE /\ outbox' = [outbox EXCEPT ![id] = Append(@, Msg("welcome", id, <<>>))]
              /\ stack' = [stack EXCEPT ![MainThread] = Goto(@, "m_join")]
    /\ UNCHANGED <<running, client_counter, clients, active, closes, lock, broken, recvd, issued, wire, bf>>
    /\ UNCHANGED rtVars

\* self.broadcast_system_message(joined, exclude=client_id)
JoinNotice ==
    /\ Top(MainThread).pc = "m_join"
    /\ LET id == Top(MainThread).cid IN
         stack' = [stack EXCEPT ![MainThread] =
                     Call(@, "m_spawn", Frame("bsm_acq", id, Msg("join", id, <<>>)))]
    /\ UNCHANGED <<running, client_counter, clients, active, closes, lock, broken, recvd, outbox, issued, wire, bf>>
    /\ UNCHANGED rtVars

\* thread.start()
Spawn ==
    /\ Top(MainThread).pc = "m_spawn"
    /\ LET id == Top(MainThread).cid IN
         stack' = [stack EXCEPT
                     ![MainThread] = SetTop(@, Frame("m_accept", 0, NoMsg)),
                     ![id] = <<Frame("h_get", id, NoMsg)>>]
    /\ UNCHANGED <<running, client_counter, clients, active, closes, lock, broken, recvd, outbox, issued, wire, bf>>
    /\ UNCHANGED rtVars

\* KeyboardInterrupt while blocked in accept(): not an Exception, so it
\* passes both handlers and reaches the finally clause of start().
Interrupt ==
    /\ Top(MainThread).pc = "m_accept"
    /\ running
    /\ stack' = [stack EXCEPT ![MainThread] = Goto(@, "cs_start")]
    /\ UNCHANGED <<running, client_counter, clients, active, closes, lock, broken, recvd, outbox, issued, wire, bf>>
    /\ UNCHANGED rtVars

(***************************************************************************)
(* cleanup_server()                                                        *)
(***************************************************************************)
CsStart ==
    /\ Top(MainThread).pc = "cs_start"
    /\ running' = FALSE
    /\ stack' = [stack EXCEPT ![MainThread] = Goto(@, "cs_acq")]
    /\ UNCHANGED <<client_counter, clients, active, closes, lock, broken, recvd, outbox, issued, wire, bf>>
    /\ UNCHANGED rtVars

\* Under the lock: close every socket, clear the map; then close the
\* listening socket.
CsBody ==
    /\ Top(MainThread).pc = "cs_body"
    /\ closes' = [i \in Ids |-> IF i \in Keys THEN closes[i] + 1 ELSE closes[i]]
    /\ clients' = <<>>
    /\ lock' = NoThread
    /\ stack' = [stack EXCEPT ![MainThread] = Goto(@, "m_done")]
    /\ UNCHANGED <<running, client_counter, active, broken, recvd, outbox, issued, wire, bf>>
    /\ UNCHANGED rtVars

(***************************************************************************)
(* handle_client(client_id)                                                *)
(***************************************************************************)
\* client_info = self.clients.get(client_id), read without the lock.
HGet(t) ==
    /\ Top(t).pc = "h_get"
    /\ stack' = [stack EXCEPT ![t] =
                   Goto(@, IF t \in Keys THEN "h_loop" ELSE "h_done")]
    /\ UNCHANGED <<running, client_counter, clients, active, closes, lock, broken, recvd, outbox, issued, wire, bf>>
    /\ UNCHANGED rtVars

\* while self.running and client_info.get('active', False): false.
HLoopExit(t) ==
    /\ Top(t).pc = "h_loop"
    /\ ~(running /\ active[t])
    /\ stack' = [stack EXCEPT ![t] = Goto(@, "h_finally")]
    /\ UNCHANGED <<running, client_counter, clients, active, closes, lock, broken, recvd, outbox, issued, wire, bf>>
    /\ UNCHANGED rtVars

\* recv returns a frame.  (A timeout returns to the loop test and changes
\* nothing.)
RecvData(t) ==
    /\ Top(t).pc = "h_loop"
    /\ running /\ active[t]
    /\ ~RecvFails(t)
    /\ recvd < MaxFrames
    /\ recvd' = recvd + 1
    /\ \E data \in Frames :
         /\ stack' = [stack EXCEPT ![t] =
                        SetTop(@, Frame("h_decrypt", t, Msg("data", t, data)))]
         /\ wire' = [wire EXCEPT ![t] = Append(@, data)]
    /\ UNCHANGED <<running, client_counter, clients, active, closes, lock, broken, outbox, issued, bf>>
    /\ UNCHANGED rtVars

\* recv returns no data: the peer has closed.
RecvEOF(t) ==
    /\ Top(t).pc = "h_loop"
    /\ running /\ active[t]
    /\ ~RecvFails(t)
    /\ stack' = [stack EXCEPT ![t] = Goto(@, "h_finally")]
    /\ UNCHANGED <<running, client_counter, clients, active, closes, lock, broken, recvd, outbox, issued, wire, bf>>
    /\ UNCHANGED rtVars

\* settimeout or recv raises.
RecvFault(t) ==
    /\ Top(t).pc = "h_loop"
    /\ running /\ active[t]
    /\ RecvFails(t)
    /\ stack' = [stack EXCEPT ![t] = Goto(@, "h_finally")]
    /\ UNCHANGED <<running, client_counter, clients, active, closes, lock, broken, recvd, outbox, issued, wire, bf>>
    /\ UNCHANGED rtVars

\* decrypted_message = self.protocol.decrypt_message(data), and the engine
\* it leaves behind.  One call at a time runs here, so it is taken whole.
Decrypted(t) == decrypt_message(Top(t).msg.txt)
EngineAfterDecrypt(t) == run_program(Top(t).msg.txt, decrypt_program).bf

\* not validate_message: the error notice, through send_to_client.
HInvalid(t) ==
    /\ Top(t).pc = "h_decrypt"
    /\ ~validate_message(Decrypted(t))
    /\ bf' = EngineAfterDecrypt(t)
    /\ stack' = [stack EXCEPT ![t] =
                   Append(SetTop(@, Frame("h_loop", t, NoMsg)),
                          Frame("st_acq", t, Msg("error", t, <<>>)))]
    /\ UNCHANGED <<running, client_counter, clients, active, closes, lock, broken, recvd, outbox, issued, wire>>
    /\ UNCHANGED rtVars

\* decrypted_message.startswith('/')
HCommand(t) ==
    /\ Top(t).pc = "h_decrypt"
    /\ validate_message(Decrypted(t))
    /\ Head(Decrypted(t)) = 47
    /\ bf' = EngineAfterDecrypt(t)
    /\ stack' = [stack EXCEPT ![t] =
                   Append(SetTop(@, Frame("h_loop", t, NoMsg)),
                          Frame("hc_start", t, Msg("command", t, Decrypted(t))))]
    /\ UNCHANGED <<running, client_counter, clients, active, closes, lock, broken, recvd, outbox, issued, wire>>
    /\ UNCHANGED rtVars

\* self.broadcast_message(client_id, decrypted_message)
HBroadcast(t) ==
    /\ Top(t).pc = "h_decrypt"
    /\ validate_message(Decrypted(t))
    /\ Head(Decrypted(t)) # 47
    /\ bf' = EngineAfterDecrypt(t)
    /\ stack' = [stack EXCEPT ![t] =
                   Append(SetTop(@, Frame("h_loop", t, NoMsg)),
                          Frame("bm_acq", t, Msg("chat", t, Decrypted(t))))]
    /\ UNCHANGED <<running, client_counter, clients, active, closes, lock, broken, recvd, outbox, issued, wire>>
    /\ UNCHANGED rtVars

\* finally: self.disconnect_client(client_id)
HFinally(t) ==
    /\ Top(t).pc = "h_finally"
    /\ stack' = [stack EXCEPT ![t] = Call(@, "h_done", Frame("dc_acq", t, NoMsg))]
    /\ UNCHANGED <<running, client_counter, clients, active, closes, lock, broken, recvd, outbox, issued, wire, bf>>
    /\ UNCHANGED rtVars

(***************************************************************************)
(* handle_command(client_id, command)                                      *)
(***************************************************************************)
\* '/users' takes the lock for its snapshot; every other command but /bf
\* goes straight to send_to_client with its reply.
HcStart(t) ==
    /\ Top(t).pc = "hc_start"
    /\ ~IsBfCommand(Top(t).msg.txt)
    /\ LET f == Top(t) IN
         stack' = [stack EXCEPT ![t] =
                     IF f.msg.txt = TextUsers
                     THEN Goto(@, "hc_users_acq")
                     ELSE Call(@, "hc_ret",
                               Frame("st_acq", f.cid, Msg("reply", f.cid, f.msg.txt)))]
    /\ UNCHANGED <<running, client_counter, clients, active, closes, lock, broken, recvd, outbox, issued, wire, bf>>
    /\ UNCHANGED rtVars

\* user_list, built under the lock; the lock is released before the send.
HcUsers(t) ==
    /\ Top(t).pc = "hc_users"
    /\ lock' = NoThread
    /\ LET f == Top(t) IN
         stack' = [stack EXCEPT ![t] =
                     Call(@, "hc_ret", Frame("st_acq", f.cid, Msg("users", f.cid, clients)))]
    /\ UNCHANGED <<running, client_counter, clients, active, closes, broken, recvd, outbox, issued, wire, bf>>
    /\ UNCHANGED rtVars

HcReturn(t) ==
    /\ Top(t).pc = "hc_ret"
    /\ stack' = [stack EXCEPT ![t] = Return(@)]
    /\ UNCHANGED <<running, client_counter, clients, active, closes, lock, broken, recvd, outbox, issued, wire, bf>>
    /\ UNCHANGED rtVars

(***************************************************************************)
(* send_to_client(client_id, message)                                      *)
(***************************************************************************)
\* Under the lock: look the target up and send; `return True` leaves the
\* with block, a failed send calls disconnect_client with the lock held.
StBody(t) ==
    /\ Top(t).pc = "st_body"
    /\ LET f == Top(t) IN
         IF f.cid \in Keys /\ active[f.cid]
         THEN IF SendFails(f.cid)
              THEN /\ stack' = [stack EXCEPT ![t] =
                                  Call(@, "st_false", Frame("dc_acq", f.cid, NoMsg))]
                   /\ UNCHANGED <<outbox, lock>>
              ELSE /\ outbox' = [outbox EXCEPT ![f.cid] = Append(@, f.msg)]
                   /\ lock' = NoThread
                   /\ stack' = [stack EXCEPT ![t] = ReturnValue(@, "true")]
         ELSE /\ stack' = [stack EXCEPT ![t] = Goto(@, "st_false")]
              /\ UNCHANGED <<outbox, lock>>
    /\ UNCHANGED <<running, client_counter, clients, active, closes, broken, recvd, issued, wire, bf>>
    /\ UNCHANGED rtVars

\* `return False`, leaving the with block.
StFalse(t) ==
    /\ Top(t).pc = "st_false"
    /\ lock' = NoThread
    /\ stack' = [stack EXCEPT ![t] = ReturnValue(@, "false")]
    /\ UNCHANGED <<running, client_counter, clients, active, closes, broken, recvd, outbox, issued, wire, bf>>
    /\ UNCHANGED rtVars

(***************************************************************************)
(* disconnect_client(client_id)                                            *)
(***************************************************************************)
\* Under the lock: when the entry is there, mark it inactive, close its
\* socket, delete it, and call broadcast_system_message -- still inside
\* the with block.
DcBody(t) ==
    /\ Top(t).pc = "dc_body"
    /\ LET id == Top(t).cid IN
         IF id \in Keys
         THEN /\ active' = [active EXCEPT ![id] = FALSE]
              /\ closes' = [closes EXCEPT ![id] = @ + 1]
              /\ clients' = Remove(clients, id)
              /\ stack' = [stack EXCEPT ![t] =
                             Call(@, "dc_exit", Frame("bsm_acq", id, Msg("leave", id, <<>>)))]
         ELSE /\ stack' = [stack EXCEPT ![t] = Goto(@, "dc_exit")]
              /\ UNCHANGED <<active, closes, clients>>
    /\ UNCHANGED <<running, client_counter, lock, broken, recvd, outbox, issued, wire, bf>>
    /\ UNCHANGED rtVars

\* The end of the with block.
DcExit(t) ==
    /\ Top(t).pc = "dc_exit"
    /\ lock' = NoThread
    /\ stack' = [stack EXCEPT ![t] = Return(@)]
    /\ UNCHANGED <<running, client_counter, clients, active, closes, broken, recvd, outbox, issued, wire, bf>>
    /\ UNCHANGED rtVars

(***************************************************************************)
(* broadcast_message(sender_id, message)                                   *)
(***************************************************************************)
\* A fan-out that forgets to leave the sender out.
bm_selects_all(client_id, sender_id) == active[client_id]

\* if client_id != sender_id and client_info.get('active', False)
bm_selects(client_id, sender_id) == client_id # sender_id /\ active[client_id]

\* One pass of the for loop over self.clients.items(): encrypt_message and
\* send for a selected target.  One call at a time runs here, so
\* encrypt_message is taken whole.
BmIter(t) ==
    /\ Top(t).pc = "bm_loop"
    /\ LET f == Top(t) IN
         /\ f.idx <= Len(clients)
         /\ LET target == clients[f.idx] IN
              IF bm_selects(target, f.cid)
              THEN IF SendFails(target)
                   THEN /\ stack' = [stack EXCEPT ![t] =
                                       SetTop(@, [f EXCEPT !.idx = @ + 1,
                                                           !.tried = Append(@, target),
                                                           !.rem = Append(@, target)])]
                        /\ outbox' = outbox
                        /\ bf' = run_program(broadcast_msg(f.cid, f.msg.txt),
                                             encrypt_program).bf
                   ELSE /\ stack' = [stack EXCEPT ![t] =
                                       SetTop(@, [f EXCEPT !.idx = @ + 1,
                                                           !.tried = Append(@, target)])]
                        /\ outbox' = [outbox EXCEPT ![target] =
                                        Append(@, Msg("chat", f.cid,
                                                      encrypt_message(
                                                        broadcast_msg(f.cid, f.msg.txt))))]
                        /\ bf' = run_program(broadcast_msg(f.cid, f.msg.txt),
                                             encrypt_program).bf
              ELSE /\ stack' = [stack EXCEPT ![t] = SetTop(@, [f EXCEPT !.idx = @ + 1])]
                   /\ outbox' = outbox
                   /\ bf' = bf
    /\ UNCHANGED <<running, client_counter, clients, active, closes, lock, broken, recvd, issued, wire>>
    /\ UNCHANGED rtVars

BmIterEnd(t) ==
    /\ Top(t).pc = "bm_loop"
    /\ Top(t).idx > Len(clients)
    /\ stack' = [stack EXCEPT ![t] = Goto(@, "bm_remove")]
    /\ UNCHANGED <<running, client_counter, clients, active, closes, lock, broken, recvd, outbox, issued, wire, bf>>
    /\ UNCHANGED rtVars

\* for client_id in clients_to_remove: self.disconnect_client(client_id),
\* inside the with block; then the with block ends.
BmRemove(t) ==
    /\ Top(t).pc = "bm_remove"
    /\ LET f == Top(t) IN
         IF f.rem # <<>>
         THEN /\ stack' = [stack EXCEPT ![t] =
                             Append(SetTop(@, [f EXCEPT !.rem = Tail(@)]),
                                    Frame("dc_acq", Head(f.rem), NoMsg))]
              /\ lock' = lock
         ELSE /\ stack' = [stack EXCEPT ![t] = Return(@)]
              /\ lock' = NoThread
    /\ UNCHANGED <<running, client_counter, clients, active, closes, broken, recvd, outbox, issued, wire, bf>>
    /\ UNCHANGED rtVars

(***************************************************************************)
(* broadcast_system_message(message, exclude)                              *)
(***************************************************************************)
\* if client_id != exclude and client_info.get('active', False)
bsm_selects(client_id, exclude) == client_id # exclude /\ active[client_id]

BsmIter(t) ==
    /\ Top(t).pc = "bsm_loop"
    /\ LET f == Top(t) IN
         /\ f.idx <= Len(clients)
         /\ LET target == clients[f.idx] IN
              IF bsm_selects(target, f.cid)
              THEN IF SendFails(target)
                   THEN /\ stack' = [stack EXCEPT ![t] =
                                       SetTop(@, [f EXCEPT !.idx = @ + 1,
                                                           !.tried = Append(@, target),
                                                           !.rem = Append(@, target)])]
                        /\ outbox' = outbox
                   ELSE /\ stack' = [stack EXCEPT ![t] =
                                       SetTop(@, [f EXCEPT !.idx = @ + 1,
                                                           !.tried = Append(@, target)])]
                        /\ outbox' = [outbox EXCEPT ![target] = Append(@, f.msg)]
              ELSE /\ stack' = [stack EXCEPT ![t] = SetTop(@, [f EXCEPT !.idx = @ + 1])]
                   /\ outbox' = outbox
    /\ UNCHANGED <<running, client_counter, clients, active, closes, lock, broken, recvd, issued, wire, bf>>
    /\ UNCHANGED rtVars

BsmIterEnd(t) ==
    /\ Top(t).pc = "bsm_loop"
    /\ Top(t).idx > Len(clients)
    /\ stack' = [stack EXCEPT ![t] = Goto(@, "bsm_remove")]
    /\ UNCHANGED <<running, client_counter, clients, active, closes, lock, broken, recvd, outbox, issued, wire, bf>>
    /\ UNCHANGED rtVars

BsmRemove(t) ==
    /\ Top(t).pc = "bsm_remove"
    /\ LET f == Top(t) IN
         IF f.rem # <<>>
         THEN /\ stack' = [stack EXCEPT ![t] =
                             Append(SetTop(@, [f EXCEPT !.rem = Tail(@)]),
                                    Frame("dc_acq", Head(f.rem), NoMsg))]
              /\ lock' = lock
         ELSE /\ stack' = [stack EXCEPT ![t] = Return(@)]
              /\ lock' = NoThread
    /\ UNCHANGED <<running, client_counter, clients, active, closes, broken, recvd, outbox, issued, wire, bf>>
    /\ UNCHANGED rtVars

(***************************************************************************)
(* The peers.                                                              *)
(***************************************************************************)
\* The peer of an open session resets its connection: from now on send
\* and recv on that socket raise.
PeerReset(i) ==
    /\ \E k \in 1..Len(issued) : issued[k] = i
    /\ i \notin broken
    /\ closes[i] = 0
    /\ Cardinality(broken) < MaxResets
    /\ broken' = broken \cup {i}
    /\ UNCHANGED <<running, client_counter, clients, active, closes, lock, stack, recvd, outbox, issued, wire, bf>>
    /\ UNCHANGED rtVars

(***************************************************************************)
(* The server.                                                             *)
(***************************************************************************)
Init == SrvInit /\ RtIdle

\* The steps of thread t that need no input from outside and no lock.
Internal(t) ==
    \/ HGet(t) \/ HLoopExit(t) \/ HInvalid(t) \/ HCommand(t) \/ HBroadcast(t)
    \/ HFinally(t) \/ HcStart(t) \/ HcUsers(t) \/ HcReturn(t)
    \/ StBody(t) \/ StFalse(t) \/ DcBody(t) \/ DcExit(t)
    \/ BmIter(t) \/ BmIterEnd(t) \/ BmRemove(t)
    \/ BsmIter(t) \/ BsmIterEnd(t) \/ BsmRemove(t)

MainInternal ==
    Register \/ Welcome \/ JoinNotice \/ Spawn \/ CsStart \/ CsBody

Next ==
    \/ Accept \/ Interrupt \/ MainInternal
    \/ \E t \in Threads : AcquireLock(t) \/ Internal(t)
    \/ \E t \in Ids : RecvData(t) \/ RecvEOF(t) \/ RecvFault(t)
    \/ \E i \in Ids : PeerReset(i)

Spec == Init /\ [][Next]_vars

(***************************************************************************)
(* Two frames in flight.  handle_client calls decrypt_message without the *)
(* lock and broadcast_message calls encrypt_message under it, all on the   *)
(* one engine self.protocol.bf; here each method call on the engine        *)
(* (reset, load_input, execute, get_output_string) is a step of its own,   *)
(* so that the calls of two threads interleave.  The peers stay connected  *)
(* and nothing is accepted or shut down meanwhile.                         *)
(***************************************************************************)
\* Two sessions registered and welcomed, their handlers in the receive loop.
RaceInit ==
    /\ running = TRUE
    /\ client_counter = 2
    /\ clients = <<1, 2>>
    /\ active = [i \in Ids |-> i \in {1, 2}]
    /\ closes = [i \in Ids |-> 0]
    /\ lock = NoThread
    /\ stack = [t \in Threads |->
                  IF t = MainThread THEN <<Frame("m_accept", 0, NoMsg)>>
                  ELSE IF t \in {1, 2} THEN <<Frame("h_loop", t, NoMsg)>>
                  ELSE <<Frame("h_unstarted", t, NoMsg)>>]
    /\ broken = {}
    /\ recvd = 0
    /\ outbox = [i \in Ids |->
                   IF i = 1 THEN <<Msg("welcome", 1, <<>>), Msg("join", 2, <<>>)>>
                   ELSE IF i = 2 THEN <<Msg("welcome", 2, <<>>)>>
                   ELSE <<>>]
    /\ issued = <<1, 2>>
    /\ wire = [i \in Ids |-> <<>>]
    /\ bf = reset
    /\ RtIdle

\* The lines the peers type, two chat lines and a /bf command; the client
\* sends encrypt_message of one.
RacePayloads == {TextHi, TextYo, TextBf}

RaceRecv(t) ==
    /\ Top(t).pc = "h_loop"
    /\ running /\ active[t]
    /\ ~RecvFails(t)
    /\ recvd < MaxRaceFrames
    /\ recvd' = recvd + 1
    /\ \E p \in RacePayloads :
         LET data == encrypt_message(p) IN
           /\ stack' = [stack EXCEPT ![t] =
                          SetTop(@, Frame("dec_reset", t, Msg("data", t, data)))]
           /\ wire' = [wire EXCEPT ![t] = Append(@, data)]
    /\ UNCHANGED <<running, client_counter, clients, active, closes, lock, broken, outbox, issued, bf>>
    /\ UNCHANGED rtVars

\* self.bf.reset() in decrypt_message and in encrypt_message.
EngineReset(t) ==
    /\ Top(t).pc \in {"dec_reset", "enc_reset"}
    /\ bf' = reset
    /\ stack' = [stack EXCEPT ![t] =
                   Goto(@, IF Top(t).pc = "dec_reset" THEN "dec_load" ELSE "enc_load")]
    /\ UNCHANGED <<running, client_counter, clients, active, closes, lock, broken, recvd, outbox, issued, wire>>
    /\ UNCHANGED rtVars

\* self.bf.load_input(encrypted_message) / self.bf.load_input(message)
EngineLoad(t) ==
    /\ Top(t).pc \in {"dec_load", "enc_load"}
    /\ LET f == Top(t) IN
         bf' = load_input(bf, IF f.pc = "dec_load" THEN f.msg.txt
                              ELSE broadcast_msg(f.cid, f.msg.txt))
    /\ stack' = [stack EXCEPT ![t] =
                   Goto(@, IF Top(t).pc = "dec_load" THEN "dec_exec" ELSE "enc_exec")]
    /\ UNCHANGED <<running, client_counter, clients, active, closes, lock, broken, recvd, outbox, issued, wire>>
    /\ UNCHANGED rtVars

\* self.bf.execute(program), on whatever the engine holds by now.
EngineExecute(t) ==
    /\ Top(t).pc \in {"dec_exec", "enc_exec"}
    /\ LET f == Top(t)
           r == execute(bf, IF f.pc = "dec_exec" THEN decrypt_program
                            ELSE encrypt_program, DefaultMaxSteps)
       IN /\ bf' = r.bf
          /\ stack' = [stack EXCEPT ![t] =
                         SetTop(@, [f EXCEPT !.ok = r.ok,
                                             !.pc = IF f.pc = "dec_exec" THEN "dec_out"
                                                    ELSE "enc_out"])]
    /\ UNCHANGED <<running, client_counter, clients, active, closes, lock, broken, recvd, outbox, issued, wire>>
    /\ UNCHANGED rtVars

\* The end of decrypt_message, then validation and dispatch of what it
\* returned.
DecOutput(t) ==
    /\ Top(t).pc = "dec_out"
    /\ LET f == Top(t)
           decrypted_message == result_or(bf, f.ok, f.msg.txt)
       IN stack' = [stack EXCEPT ![t] =
            Append(SetTop(@, Frame("h_loop", t, NoMsg)),
                   IF ~validate_message(decrypted_message)
                   THEN Frame("st_acq", t, Msg("error", t, <<>>))
                   ELSE IF Head(decrypted_message) = 47
                   THEN Frame("hc_start", t, Msg("command", t, decrypted_message))
                   ELSE Frame("bm_acq", t, Msg("chat", t, decrypted_message)))]
    /\ UNCHANGED <<running, client_counter, clients, active, closes, lock, broken, recvd, outbox, issued, wire, bf>>
    /\ UNCHANGED rtVars

\* One pass of the for loop of broadcast_message, up to the call of
\* encrypt_message.
RaceBmIter(t) ==
    /\ Top(t).pc = "bm_loop"
    /\ LET f == Top(t) IN
         /\ f.idx <= Len(clients)
         /\ stack' = [stack EXCEPT ![t] =
                        IF bm_selects(clients[f.idx], f.cid)
                        THEN Goto(@, "enc_reset")
                        ELSE SetTop(@, [f EXCEPT !.idx = @ + 1])]
    /\ UNCHANGED <<running, client_counter, clients, active, closes, lock, broken, recvd, outbox, issued, wire, bf>>
    /\ UNCHANGED rtVars

\* The end of encrypt_message, and the send of what it returned.
EncSend(t) ==
    /\ Top(t).pc = "enc_out"
    /\ LET f == Top(t)
           target == clients[f.idx]
           encrypted_msg == result_or(bf, f.ok, broadcast_msg(f.cid, f.msg.txt))
       IN IF SendFails(target)
          THEN /\ stack' = [stack EXCEPT ![t] =
                              SetTop(@, [f EXCEPT !.pc = "bm_loop", !.idx = @ + 1,
                                                  !.tried = Append(@, target),
                                                  !.rem = Append(@, target)])]
               /\ outbox' = outbox
          ELSE /\ stack' = [stack EXCEPT ![t] =
                              SetTop(@, [f EXCEPT !.pc = "bm_loop", !.idx = @ + 1,
                                                  !.tried = Append(@, target)])]
               /\ outbox' = [outbox EXCEPT ![target] =
                               Append(@, Msg("chat", f.cid, encrypted_msg))]
    /\ UNCHANGED <<running, client_counter, clients, active, closes, lock, broken, recvd, issued, wire, bf>>
    /\ UNCHANGED rtVars

\* elif command.startswith('/bf '): the branch is entered.
BfStart(t) ==
    /\ Top(t).pc = "hc_start"
    /\ IsBfCommand(Top(t).msg.txt)
    /\ stack' = [stack EXCEPT ![t] = Goto(@, "bf_reset")]
    /\ UNCHANGED <<running, client_counter, clients, active, closes, lock, broken, recvd, outbox, issued, wire, bf>>
    /\ UNCHANGED rtVars

\* self.protocol.bf.reset()
BfReset(t) ==
    /\ Top(t).pc = "bf_reset"
    /\ bf' = reset
    /\ stack' = [stack EXCEPT ![t] = Goto(@, "bf_load")]
    /\ UNCHANGED <<running, client_counter, clients, active, closes, lock, broken, recvd, outbox, issued, wire>>
    /\ UNCHANGED rtVars

\* self.protocol.bf.load_input("Hello!")
BfLoad(t) ==
    /\ Top(t).pc = "bf_load"
    /\ bf' = load_input(bf, TextHello)
    /\ stack' = [stack EXCEPT ![t] = Goto(@, "bf_exec")]
    /\ UNCHANGED <<running, client_counter, clients, active, closes, lock, broken, recvd, outbox, issued, wire>>
    /\ UNCHANGED rtVars

\* success = self.protocol.bf.execute(bf_code, max_steps=5000), on whatever
\* the engine holds by now.
BfExecute(t) ==
    /\ Top(t).pc = "bf_exec"
    /\ LET f == Top(t)
           r == execute(bf, bf_code(f.msg.txt), BfMaxSteps)
       IN /\ bf' = r.bf
          /\ stack' = [stack EXCEPT ![t] =
                         SetTop(@, [f EXCEPT !.ok = r.ok, !.pc = "bf_out"])]
    /\ UNCHANGED <<running, client_counter, clients, active, closes, lock, broken, recvd, outbox, issued, wire>>
    /\ UNCHANGED rtVars

\* The response of /bf: the output string when execute returned True, the
\* failure notice otherwise.
bf_response(client_id, machine, success) ==
    IF success THEN Msg("bf_output", client_id, get_output_string(machine))
    ELSE Msg("bf_error", client_id, <<>>)

\* response = ...; self.send_to_client(client_id, response)
BfReply(t) ==
    /\ Top(t).pc = "bf_out"
    /\ LET f == Top(t) IN
         stack' = [stack EXCEPT ![t] =
                     Call(@, "hc_ret", Frame("st_acq", f.cid, bf_response(f.cid, bf, f.ok)))]
    /\ UNCHANGED <<running, client_counter, clients, active, closes, lock, broken, recvd, outbox, issued, wire, bf>>
    /\ UNCHANGED rtVars

RaceNext ==
    \E t \in Ids :
        \/ RaceRecv(t) \/ EngineReset(t) \/ EngineLoad(t) \/ EngineExecute(t)
        \/ DecOutput(t) \/ AcquireLock(t) \/ RaceBmIter(t) \/ EncSend(t)
        \/ BmIterEnd(t) \/ BmRemove(t) \/ StBody(t)
        \/ BfStart(t) \/ BfReset(t) \/ BfLoad(t) \/ BfExecute(t) \/ BfReply(t)
        \/ HcReturn(t)

RaceSpec == RaceInit /\ [][RaceNext]_vars

(***************************************************************************)
(* Properties of the server.                                               *)
(***************************************************************************)
Range(s) == {s[k] : k \in 1..Len(s)}

FramesOf(t) == Range(stack[t])

DcLabels  == {"dc_acq", "dc_body", "dc_exit"}
StLabels  == {"st_acq", "st_body", "st_false"}
FanLabels == {"bm_acq", "bm_loop", "bm_remove", "bsm_acq", "bsm_loop", "bsm_remove"}

\* Thread t is inside disconnect_client(d), send_to_client, a fan-out.
InDisconnect(t, d) == \E f \in FramesOf(t) : f.pc \in DcLabels /\ f.cid = d
InSendTo(t) == \E f \in FramesOf(t) : f.pc \in StLabels
InFanOut(t) == \E f \in FramesOf(t) : f.pc \in FanLabels

\* Thread t waits for the lock.
Waiting(t) == BodyOf(Top(t).pc) # "none"

\* Thread t waits for the lock while the thread that holds it waits for it
\* too.  The holder's only step is then to acquire a lock that only it can
\* release, so from here on neither thread takes another step.
BlockedForever(t) == Waiting(t) /\ lock # NoThread /\ Waiting(lock)

\* BlockedForever is what it says: no step ends it.
BlockedStays ==
    [][\A t \in Threads : BlockedForever(t) => BlockedForever(t)' /\ stack[t]' = stack[t]]_vars

\* The departure notices for d that were sent to j.
DepartureNotices(d, j) ==
    Cardinality({k \in 1..Len(outbox[j]) : outbox[j][k] = Msg("leave", d, <<>>)})

\* The handler of session t has ended.
HandlerDone(t) == Len(stack[t]) = 1 /\ stack[t][1].pc = "h_done"

\* C1: every call of disconnect_client returns -- no caller is left
\* blocked inside it -- the socket of a session is closed at most once and
\* at most one departure notice for it reaches any other session; and once
\* a session has been torn down and its handler has ended, each session
\* still registered has received exactly one departure notice for it.
C1_DeregisterOnce ==
    \A d \in Ids :
        /\ \A t \in Threads : InDisconnect(t, d) => ~BlockedForever(t)
        /\ closes[d] <= 1
        /\ \A j \in Ids : DepartureNotices(d, j) <= 1
        /\ (HandlerDone(d) /\ ~active[d] /\ running) =>
               \A j \in Keys \ broken : DepartureNotices(d, j) = 1

\* Session i has suffered a terminal condition: its handler has left the
\* receive loop, or a send to it has failed.
Terminal(i) ==
    \/ stack[i][1].pc \in {"h_finally", "h_done"}
    \/ \E t \in Threads : \E f \in FramesOf(t) :
          i \in Range(f.rem) \/ (f.pc \in DcLabels /\ f.cid = i)

\* C2: after a session has suffered a terminal condition, the accept loop
\* is not left blocked with a connection it has taken and not yet
\* registered, and no other session's handler is left blocked with a frame
\* it has received and not yet processed.
C2_FaultsAreLocal ==
    /\ (\E i \in Ids : Terminal(i)) /\ Top(MainThread).pc = "m_reg_acq"
          => ~BlockedForever(MainThread)
    /\ \A t \in Ids :
          ((\E i \in Ids \ {t} : Terminal(i))
              /\ stack[t][1].pc = "h_loop" /\ Len(stack[t]) > 1)
          => ~BlockedForever(t)

\* The targets a fan-out over the registry, arrived at index done, has had
\* to call send on: every key but the excluded one, once, in order.
Expected(f, done) ==
    SelectSeq(SubSeq(clients, 1, done), LAMBDA c : c # f.cid /\ active[c])

\* C3: in every broadcast_message call, the sends made so far are one to
\* each registered, active session other than the sender that the loop has
\* passed -- all of them once the loop is over -- and none to the sender;
\* and no session ever receives a chat message it sent itself.
C3_BroadcastIsolation ==
    /\ \A t \in Threads : \A f \in FramesOf(t) :
         /\ f.pc = "bm_loop" =>
              /\ f.idx - 1 \in 0..Len(clients)
              /\ f.tried = Expected(f, f.idx - 1)
         /\ f.pc = "bm_remove" => f.tried = Expected(f, Len(clients))
    /\ \A i \in Ids : \A k \in 1..Len(outbox[i]) :
         outbox[i][k].kind = "chat" => outbox[i][k].who # i

C3_Witness ==
    \E t \in Ids :
        /\ Top(t).pc = "bm_remove"
        /\ Len(clients) = 3
        /\ Len(Top(t).tried) = 2
        /\ \A j \in Ids \ {t} :
             \E k \in 1..Len(outbox[j]) :
                 outbox[j][k] = Msg("chat", t, encrypt_message(broadcast_msg(t, TextHi)))

\* C4: a fan-out in which a send has failed goes on to the remaining
\* targets and is not left blocked: it removes the failed targets and
\* returns.  (While it iterates, the registry does not change.)
C4_FailedTargetsRemoved ==
    \A t \in Threads : \A f \in FramesOf(t) :
        /\ (f.pc \in {"bm_loop", "bsm_loop"}) =>
              f.idx - 1 \in 0..Len(clients) /\ f.tried = Expected(f, f.idx - 1)
        /\ (f.pc \in {"bm_remove", "bsm_remove"}) =>
              /\ f.tried = Expected(f, Len(clients))
              /\ ~BlockedForever(t)

\* C5: send_to_client always returns -- no caller is left blocked inside
\* it -- and what it has returned is False when its target is not in the
\* registry.
C5_SendToReturns ==
    \A t \in Ids :
        /\ InSendTo(t) => ~BlockedForever(t)
        /\ (Top(t).ret = "true" /\ Top(t).pc = "h_loop") =>
              \E k \in 1..Len(outbox[t]) : outbox[t][k].kind \in {"error", "reply", "users"}

\* The handler thread of session i is running.
HandlerRunning(i) == stack[i][1].pc # "h_unstarted" /\ ~HandlerDone(i)

\* The accept loop has registered i and has not started its handler yet.
AboutToStart(i) ==
    /\ stack[MainThread][1].pc \in {"m_welcome", "m_join", "m_spawn"}
    /\ stack[MainThread][1].cid = i

\* C6: the identifiers in the registry are exactly the sessions whose
\* handler thread is running or about to be started.
C6_RegistryMatchesHandlers ==
    Keys = {i \in Ids : HandlerRunning(i) \/ AboutToStart(i)}

\* C7: the identifiers handed out are strictly increasing, so no two
\* registrations return the same one and none is handed out again after
\* its session was removed.
C7_IdentifiersIncrease ==
    \A a \in 1..Len(issued) : \A b \in 1..Len(issued) :
        a < b => issued[a] < issued[b]

C7_Witness ==
    /\ Len(issued) = 3
    /\ \E i \in Range(issued) : i \notin Keys /\ closes[i] = 1 /\ ~active[i]

\* C8: a handler that has left its receive loop is not left blocked in its
\* call of disconnect_client: the call returns and the thread ends.
C8_HandlerTerminates ==
    \A t \in Ids :
        (stack[t][1].pc = "h_done" /\ ~HandlerDone(t)) => ~BlockedForever(t)

\* C10: every chat message a session receives from sender S is
\* encrypt_message of "S: p" for a payload p whose encoding S's peer has
\* sent, and decrypt_message turns it back into "S: p".
C10_RelayContent ==
    \A j \in Ids : \A k \in 1..Len(outbox[j]) :
        LET m == outbox[j][k] IN
          m.kind = "chat" =>
            \E n \in 1..Len(wire[m.who]) :
               LET p == decrypt_message(wire[m.who][n]) IN
                 /\ validate_message(p)
                 /\ m.txt = encrypt_message(broadcast_msg(m.who, p))
                 /\ decrypt_message(m.txt) = broadcast_msg(m.who, p)

\* The two-frame runs stay within the steps taken there: a frame decrypts,
\* raced or not, to a chat line, to an invalid text or to a /bf command,
\* never to another command, and no send fails.
RaceClosed ==
    \A t \in Threads : \A f \in FramesOf(t) :
        /\ f.pc \notin {"st_false", "hc_users_acq", "hc_users"} \cup DcLabels
        /\ f.pc = "hc_start" => IsBfCommand(f.msg.txt)

(***************************************************************************)
(* One call of execute, followed pass by pass of its while loop.  The      *)
(* machine is bf; ex holds the locals of the call (code, ip, steps,        *)
(* max_steps) and what the passes so far have done.                        *)
(***************************************************************************)
MaxProgLen == 2
MaxSmallBudget == 3

ExAlphabet == {">", "<", "+", "-", ".", ",", "[", "]"}

\* Every program of up to MaxProgLen instructions, well formed or not.
ShortPrograms == UNION {[1..n -> ExAlphabet] : n \in 0..MaxProgLen}

ProgIncLoop  == <<"+", "[", "+", "]">>          \* "+[+]"
ProgDecLoop  == <<"+", "[", "-", "]">>          \* "+[-]"
ProgClear    == <<"[", "-", "]">>               \* "[-]"
ProgRight    == <<"+", "[", ">", "+", "]">>     \* "+[>+]": walks to the last cell
ProgNested   == <<"+", "[", "[", "-", "]", "]">>
ProgOpenOnly == <<"+", "[", "[", "-">>          \* two '[' never closed
ProgCloseOnly == <<"+", "]", "-", "]">>         \* two ']' never opened

NamedPrograms ==
    {ProgIncLoop, ProgDecLoop, ProgClear, ProgRight, ProgNested, ProgOpenOnly,
     ProgCloseOnly, encrypt_program, decrypt_program}

\* What load_input is given: nothing, two ASCII characters, and a text with
\* a character above 255 (U+20AC) as recv(...).decode('utf-8') can deliver.
ExInputs == {<<>>, <<72, 105>>, <<8364, 65>>}

\* The value cell 0 holds when execute is called: execute does not touch
\* the tape before its first instruction, so it is whatever the previous
\* use of the machine left there.
Cell0Values == {0, 5}

\* The calls followed: every program under every small budget and under the
\* budget of /bf, and the terminating named programs under the default one.
ExCases ==
    [code : ShortPrograms \cup NamedPrograms, input : ExInputs, c0 : Cell0Values,
     max_steps : (1..MaxSmallBudget) \cup {BfMaxSteps}]
    \cup
    [code : {ProgIncLoop, ProgDecLoop, ProgClear, encrypt_program, decrypt_program},
     input : ExInputs, c0 : Cell0Values, max_steps : {DefaultMaxSteps}]

\* The machine a case starts from: reset, cell 0 as left, input loaded.
ExMachine(c) == load_input([reset EXCEPT !.memory[0] = c.c0], c.input)

\* execute has been entered: output_buffer = [], ip = 0, steps = 0.
ExInit ==
    /\ \E c \in ExCases :
         /\ bf = ExMachine(c)
         /\ ex = [pc |-> "run", code |-> c.code, input |-> c.input, c0 |-> c.c0,
                  max_steps |-> c.max_steps, ip |-> 0, steps |-> 0, ok |-> FALSE,
                  visits |-> [k \in 1..Len(c.code) |-> 0], last |-> NoPass]
    /\ rt_msg = <<>>
    /\ rt_encrypted = <<>>
    /\ rt_decrypted = <<>>
    /\ rt_pc = "idle"
    /\ cl = ClIdle
    /\ running = FALSE
    /\ client_counter = 0
    /\ clients = <<>>
    /\ active = [i \in Ids |-> FALSE]
    /\ closes = [i \in Ids |-> 0]
    /\ lock = NoThread
    /\ stack = [t \in Threads |->
                  IF t = MainThread THEN <<Frame("m_unstarted", 0, NoMsg)>>
                  ELSE <<Frame("h_unstarted", t, NoMsg)>>]
    /\ broken = {}
    /\ recvd = 0
    /\ outbox = [i \in Ids |-> <<>>]
    /\ issued = <<>>
    /\ wire = [i \in Ids |-> <<>>]

\* The indices of code the bracket scan of a pass reads: from ip + 1 up to
\* where the forward scan stops, or from ip - 1 down to where the backward
\* scan stops.
ScanRead(code, ip, cell) ==
    CASE code[ip + 1] = "[" /\ cell = 0 ->
            [lo |-> ip + 1, hi |-> ScanForward(code, ip + 1, 1) - 1]
      [] code[ip + 1] = "]" /\ cell # 0 ->
            [lo |-> ScanBackward(code, ip - 1, 1) + 1, hi |-> ip - 1]
      [] OTHER -> [lo |-> 0, hi |-> -1]

\* while ip < len(code) and steps < max_steps: one pass.
ExPass ==
    /\ ex.pc = "run"
    /\ ex.ip < Len(ex.code) /\ ex.steps < ex.max_steps
    /\ LET x    == ExecStep(ex.code, [bf |-> bf, ip |-> ex.ip, steps |-> ex.steps])
           cell == bf.memory[bf.pointer]
           scan == ScanRead(ex.code, ex.ip, cell)
       IN /\ bf' = x.bf
          /\ ex' = [ex EXCEPT
                      !.ip = x.ip,
                      !.steps = x.steps,
                      !.visits[ex.ip + 1] = @ + 1,
                      !.last = [cmd |-> ex.code[ex.ip + 1], at |-> ex.ip,
                                cell |-> cell, lo |-> scan.lo, hi |-> scan.hi]]
    /\ UNCHANGED <<rt_msg, rt_encrypted, rt_decrypted, rt_pc, cl>>
    /\ UNCHANGED <<running, client_counter, clients, active, closes, lock, stack,
                   broken, recvd, outbox, issued, wire>>

\* The loop test fails: return steps < max_steps.
ExReturn ==
    /\ ex.pc = "run"
    /\ ~(ex.ip < Len(ex.code) /\ ex.steps < ex.max_steps)
    /\ ex' = [ex EXCEPT !.pc = "done", !.ok = (ex.steps < ex.max_steps)]
    /\ UNCHANGED <<rt_msg, rt_encrypted, rt_decrypted, rt_pc, cl>>
    /\ UNCHANGED srvVars

ExNext == ExPass \/ ExReturn

ExSpec == ExInit /\ [][ExNext]_vars

\* The passes agree with execute taken whole (compared on the short runs).
ExAgrees ==
    (ex.pc = "done" /\ ex.steps <= 40) =>
        execute(ExMachine(ex), ex.code, ex.max_steps) = [bf |-> bf, ok |-> ex.ok]

(***************************************************************************)
(* Properties of execute.                                                  *)
(***************************************************************************)
ExDone == ex.pc = "done"
PastEnd == ex.ip >= Len(ex.code)

\* C11: execute never runs more than max_steps instructions; it returns
\* True whenever the instruction cursor has run past the end of the program
\* -- also when the last instruction was the max_steps-th -- and False only
\* when the cursor is still inside the program.
C11_StepBudget ==
    /\ ex.steps <= ex.max_steps
    /\ ExDone => (ex.ok <=> PastEnd)

\* A call of execute("+[+]", max_steps) on a reset machine, with one of the
\* budgets the program uses.
IncLoopCall ==
    /\ ex.code = ProgIncLoop /\ ex.c0 = 0
    /\ ex.max_steps \in {BfMaxSteps, DefaultMaxSteps}

\* C12 (as stated): "+[+]" never brings its cell back to 0, so the call
\* ends by exhausting its budget and returns False.
C12_IncLoopFails == (ExDone /\ IncLoopCall) => ~ex.ok

\* C12 (amended): the cell of "+[+]" wraps from 255 to 0 at the 256th '+',
\* so the call ends after 766 instructions, within its budget, with cell 0
\* back at 0, and returns True.
C12_IncLoopHalts ==
    IncLoopCall =>
        /\ ex.steps <= 766
        /\ ExDone => (ex.ok /\ ex.steps = 766 /\ PastEnd /\ bf.memory[0] = 0)

C12_Witness ==
    /\ ExDone /\ IncLoopCall
    /\ ex.max_steps = BfMaxSteps
    /\ ex.steps = 766 /\ ex.ok
    /\ ex.visits = <<1, 255, 255, 255>>

\* execute("+[-]") called with cell 0 = 5, under a budget the program uses.
DecLoopCall ==
    /\ ex.code = ProgDecLoop /\ ex.c0 = 5
    /\ ex.max_steps \in {BfMaxSteps, DefaultMaxSteps}

\* execute("[-]") called with cell 0 = 0: nothing inside the brackets is
\* executed and the tape stays as it was.
ClearSkipsBody ==
    (ex.code = ProgClear /\ ex.c0 = 0) =>
        /\ ex.visits[2] = 0 /\ ex.visits[3] = 0
        /\ bf.memory = reset.memory

\* C13 (as stated): "+[-]" from cell 0 = 5 halts with success, its loop
\* body has run exactly 5 times and cell 0 is 0; "[-]" from cell 0 = 0
\* runs nothing inside the brackets and leaves the tape unchanged.
C13_LoopRunsFive ==
    /\ (ExDone /\ DecLoopCall) =>
          (ex.ok /\ PastEnd /\ ex.visits[3] = 5 /\ bf.memory[0] = 0)
    /\ ClearSkipsBody

\* C13 (amended): the leading '+' makes the cell 6 before the loop is
\* entered, so the loop body runs exactly 6 times.
C13_LoopRunsSix ==
    /\ (ExDone /\ DecLoopCall) =>
          (ex.ok /\ PastEnd /\ ex.visits[3] = 6 /\ bf.memory[0] = 0)
    /\ ClearSkipsBody

C13_Witness ==
    /\ ExDone /\ DecLoopCall
    /\ ex.max_steps = BfMaxSteps
    /\ ex.visits = <<1, 6, 6, 6>>
    /\ ex.steps = 19 /\ ex.ok
    /\ bf.memory[0] = 0

\* The loop of execute is not abandoned half way: the thread that called
\* execute keeps running it.
ExFairSpec == ExSpec /\ WF_vars(ExNext)

\* The bracket scan of the last pass read only indices of the program, no
\* more of them than the program has, and left the cursor in 0..len(code).
ScanInBounds ==
    /\ ex.last.lo <= ex.last.hi =>
          (ex.last.lo >= 0 /\ ex.last.hi <= Len(ex.code) - 1)
    /\ ex.last.hi - ex.last.lo + 1 <= Len(ex.code)
    /\ ex.ip >= 0 /\ ex.ip <= Len(ex.code)

\* C18: for every program over the eight instructions, matched or not, each
\* bracket scan stops at the boundary of the program without reading
\* outside it, execute runs at most max_steps instructions, and it returns.
C18_MalformedBrackets ==
    /\ [](ScanInBounds /\ ex.steps <= ex.max_steps /\ ex.ok \in BOOLEAN)
    /\ <>ExDone

\* A ']' with nothing to match: the scan has read indices 0..2 of "+]-]",
\* has stopped at the start of the program, and the program starts over.
C18_Witness ==
    /\ ex.code = ProgCloseOnly
    /\ ex.last.cmd = "]" /\ ex.last.at = 3 /\ ex.last.cell # 0
    /\ ex.last.lo = 0 /\ ex.last.hi = 2
    /\ ex.ip = 0

\* How many of the instructions at indices lo..hi of code are c.
CountOf(code, lo, hi, c) == Cardinality({k \in lo..hi : code[k + 1] = c})

\* The '[' that matches the ']' at index at: the nearest '[' before it with
\* as many '[' as ']' in between.
OpensOf(code, at) ==
    {j \in 0..(at - 1) :
        /\ code[j + 1] = "["
        /\ CountOf(code, j + 1, at - 1, "[") = CountOf(code, j + 1, at - 1, "]")}

MatchingOpen(code, at) ==
    CHOOSE j \in OpensOf(code, at) : \A k \in OpensOf(code, at) : k <= j

\* C19: after a ']' executed on a non-zero cell the cursor is on the
\* instruction just after the matching '[' -- the '[' is not executed again
\* -- and after a ']' executed on a zero cell it is on the instruction
\* after the ']'.
C19_BackwardJump ==
    (ex.last.cmd = "]") =>
        IF ex.last.cell # 0
        THEN OpensOf(ex.code, ex.last.at) # {} =>
                ex.ip = MatchingOpen(ex.code, ex.last.at) + 1
        ELSE ex.ip = ex.last.at + 1

\* C20: after every instruction the tape has its TapeLen cells, every cell
\* holds a value in 0..255 and the pointer is in 0..TapeLen - 1 -- whatever
\* text was loaded as input, characters above 255 included.
C20_TapeInvariant ==
    /\ DOMAIN bf.memory = 0..(TapeLen - 1)
    /\ \A i \in 0..(TapeLen - 1) : bf.memory[i] >= 0 /\ bf.memory[i] <= 255
    /\ bf.pointer >= 0 /\ bf.pointer <= TapeLen - 1

\* The same over the calls whose input has no character above 255
\* (a helper: the part of C20 that holds).
TapeInvariantLatin ==
    (\A k \in 1..Len(ex.input) : ex.input[k] <= 255) => C20_TapeInvariant

\* '>' has been executed on the last cell, '<' on cell 0.
ClampedHigh == ex.last.cmd = ">" /\ bf.pointer = TapeLen - 1 /\ ex.visits[3] >= TapeLen
ClampedLow == ex.last.cmd = "<" /\ bf.pointer = 0

(***************************************************************************)
(* Properties of the lock and of the shared engine.                        *)
(***************************************************************************)
\* C16: no thread tries to acquire self.lock while it holds it, so every
\* acquisition is followed by a release and no thread waits for ever.
C16_NoSelfAcquire ==
    \A t \in Threads : Waiting(t) => lock # t

\* Thread t is between the reset and the get_output_string of a use of the
\* engine.
InEngine(t) ==
    Top(t).pc \in {"dec_load", "dec_exec", "dec_out", "enc_load", "enc_exec", "enc_out",
                   "bf_load", "bf_exec", "bf_out"}

\* C17: the uses of the shared engine by different threads never overlap.
C17_SerialEngine ==
    \A t \in Ids : \A u \in Ids \ {t} : ~(InEngine(t) /\ InEngine(u))

(***************************************************************************)
(* Properties of the routing of received frames.                           *)
(***************************************************************************)
HcLabels == {"hc_start", "hc_users_acq", "hc_users", "hc_ret"}
BmLabels == {"bm_acq", "bm_loop", "bm_remove"}

\* The handler of t is dealing with the frame it received last.
InOutcome(t) == stack[t][1].pc = "h_loop" /\ Len(stack[t]) >= 2

\* What the frame being dealt with decodes to.
Decoded(t) == decrypt_message(wire[t][Len(wire[t])])

\* The handler has taken the one branch its decoded text selects: the error
\* notice to itself, the command dispatcher, or the broadcast with itself
\* as sender.
RoutedByText(t) ==
    LET g == stack[t][2] IN
      /\ g.cid = t
      /\ IF ~validate_message(Decoded(t))
         THEN g.pc \in StLabels /\ g.msg.kind = "error"
         ELSE IF Head(Decoded(t)) = 47
         THEN /\ g.pc \in HcLabels
              /\ \A f \in FramesOf(t) : f.pc \notin BmLabels
              /\ \A f \in FramesOf(t) : f.pc \in StLabels => f.cid = t
         ELSE g.pc \in BmLabels /\ g.msg.txt = Decoded(t)

\* Error notices and command replies are sent to the issuer only; a chat
\* message relays a valid text that is not a command.
RepliesToIssuer ==
    \A i \in Ids : \A k \in 1..Len(outbox[i]) :
        LET m == outbox[i][k] IN
          /\ m.kind \in {"error", "reply", "users"} => m.who = i
          /\ m.kind = "chat" =>
                \E n \in 1..Len(wire[m.who]) :
                    LET p == decrypt_message(wire[m.who][n]) IN
                      /\ validate_message(p) /\ Head(p) # 47
                      /\ m.txt = encrypt_message(broadcast_msg(m.who, p))

RoutingSafe == RepliesToIssuer /\ \A t \in Ids : InOutcome(t) => RoutedByText(t)

\* C14: every received frame is routed by its decoded text to exactly one
\* of error notice, command reply and broadcast; errors and replies go to
\* the issuer only and are never broadcast; and the handler is not left
\* blocked in the outcome: it returns to its receive loop.
C14_FrameRouting ==
    /\ RoutingSafe
    /\ \A t \in Ids : InOutcome(t) => ~BlockedForever(t)

(***************************************************************************)
(* Properties of the /bf command.                                          *)
(***************************************************************************)
\* What /bf has to answer to command: the response for the program run on
\* a freshly reset machine with input "Hello!" under the budget of /bf.
ExpectedBf(client_id, command) ==
    LET r == execute(load_input(reset, TextHello), bf_code(command), BfMaxSteps)
    IN bf_response(client_id, r.bf, r.ok)

TextGdkkn == <<71, 100, 107, 107, 110, 32>>      \* "Gdkkn "

\* C15: every response of /bf goes to the issuer of a /bf command and is
\* the one for its program run on a freshly reset machine with the input
\* "Hello!" and 5000 steps: the output string on success, the failure
\* notice otherwise; for ",[-.,]" it carries "Gdkkn ".
C15_BfReply ==
    \A i \in Ids : \A k \in 1..Len(outbox[i]) :
        LET m == outbox[i][k] IN
          m.kind \in {"bf_output", "bf_error"} =>
            /\ m.who = i
            /\ \E n \in 1..Len(wire[i]) :
                 LET c == decrypt_message(wire[i][n]) IN
                   /\ IsBfCommand(c)
                   /\ m = ExpectedBf(i, c)
                   /\ c = TextBf => m.txt = TextGdkkn

(***************************************************************************)
(* Properties of the shutdown.                                             *)
(***************************************************************************)
\* cleanup_server has been entered and has cleared the running flag; it
\* has returned.
ShutdownBegun == stack[MainThread][1].pc \in {"cs_acq", "cs_body", "m_done"}
ShutdownDone == stack[MainThread][1].pc = "m_done"

\* C21: once shutdown has begun the running flag is clear and the shutdown
\* routine is not left blocked; when it has returned the registry is empty,
\* the socket of every session ever registered is closed, no handler is
\* left blocked, and no departure notice is under way.
C21_CooperativeShutdown ==
    /\ ShutdownBegun => ~running
    /\ ShutdownBegun => ~BlockedForever(MainThread)
    /\ ShutdownDone =>
          /\ clients = <<>>
          /\ \A i \in Range(issued) : closes[i] >= 1
          /\ \A t \in Ids : ~BlockedForever(t)
          /\ \A t \in Threads : \A f \in FramesOf(t) : f.msg.kind # "leave"

\* The shutdown routine waits for the lock, and the lock is held by a
\* handler that left its loop only because the running flag was cleared
\* -- no frame was received and no peer has gone -- and is now blocked
\* inside its own disconnect_client.
ShutdownBlockedByHandler ==
    /\ stack[MainThread][1].pc = "cs_acq"
    /\ BlockedForever(MainThread)
    /\ lock \in Ids
    /\ stack[lock][1].pc = "h_done"
    /\ broken = {} /\ recvd = 0
    /\ \A i \in Ids : wire[i] = <<>>

(***************************************************************************)
(* From the server's send to the client's display.  One message is         *)
(* followed: the server composes it, puts it on the socket (encrypted      *)
(* when it is relayed chat, as it is otherwise), the client's              *)
(* receive_messages reads it with one recv, applies decrypt_message and    *)
(* displays the result.  Texts are sequences of code points; what is on    *)
(* the socket is a sequence of bytes.                                      *)
(***************************************************************************)
RecvSize == 1024

\* str.encode('utf-8') of one code point and of a text.
Utf8Of(c) ==
    IF c < 128 THEN <<c>>
    ELSE IF c < 2048 THEN <<192 + (c \div 64), 128 + (c % 64)>>
    ELSE IF c < 65536
         THEN <<224 + (c \div 4096), 128 + ((c \div 64) % 64), 128 + (c % 64)>>
         ELSE <<240 + (c \div 262144), 128 + ((c \div 4096) % 64),
                128 + ((c \div 64) % 64), 128 + (c % 64)>>

RECURSIVE Utf8Encode(_)
Utf8Encode(text) ==
    IF text = <<>> THEN <<>>
    ELSE IF Len(text) = 1 THEN Utf8Of(text[1])
    ELSE LET h == Len(text) \div 2
         IN Utf8Encode(SubSeq(text, 1, h)) \o Utf8Encode(SubSeq(text, h + 1, Len(text)))

\* The number of bytes a sequence led by byte b has; 0 when b leads none.
Utf8Width(b) ==
    IF b < 128 THEN 1
    ELSE IF b >= 194 /\ b <= 223 THEN 2
    ELSE IF b >= 224 /\ b <= 239 THEN 3
    ELSE IF b >= 240 /\ b <= 244 THEN 4
    ELSE 0

IsContinuation(b) == b >= 128 /\ b <= 191

\* One step of the decoder at index st.at of bytes: a well-formed sequence
\* gives its code point; a byte that leads none, or whose continuation
\* bytes are missing or cut off, is dropped (errors='ignore').
Utf8Step(bytes, st) ==
    LET i == st.at
        b == bytes[i]
        w == Utf8Width(b)
        whole == /\ w >= 1
                 /\ i + w - 1 <= Len(bytes)
                 /\ \A k \in 1..(w - 1) : IsContinuation(bytes[i + k])
    IN IF ~whole THEN [st EXCEPT !.at = i + 1]
       ELSE LET c == CASE w = 1 -> b
                       [] w = 2 -> (b - 192) * 64 + (bytes[i + 1] - 128)
                       [] w = 3 -> (b - 224) * 4096 + (bytes[i + 1] - 128) * 64
                                     + (bytes[i + 2] - 128)
                       [] w = 4 -> (b - 240) * 262144 + (bytes[i + 1] - 128) * 4096
                                     + (bytes[i + 2] - 128) * 64 + (bytes[i + 3] - 128)
            IN [at |-> i + w, out |-> Append(st.out, c)]

\* At most n steps of the decoder, taken half by half.
RECURSIVE Utf8Scan(_, _, _)
Utf8Scan(bytes, st, n) ==
    IF st.at > Len(bytes) THEN st
    ELSE IF n = 1 THEN Utf8Step(bytes, st)
    ELSE LET half == Utf8Scan(bytes, st, n \div 2)
         IN Utf8Scan(bytes, half, n - (n \div 2))

\* bytes.decode('utf-8', errors='ignore')
Utf8Decode(bytes) == Utf8Scan(bytes, [at |-> 1, out |-> <<>>], Len(bytes)).out

\* self.socket.recv(1024).decode('utf-8', errors='ignore')
recv_decode(bytes) == Utf8Decode(SubSeq(bytes, 1, Min2(Len(bytes), RecvSize)))

\* The texts the server composes.
\* f"🧠 Welcome to Brainfuck Chat! You are {client_id}"
welcome(k) ==
    <<129504, 32, 87, 101, 108, 99, 111, 109, 101, 32, 116, 111, 32, 66,
      114, 97, 105, 110, 102, 117, 99, 107, 32, 67, 104, 97, 116, 33, 32,
      89, 111, 117, 32, 97, 114, 101, 32>>
      \o ClientIdText(k)

\* f"🔔 {client_id} joined the chat"
joined_msg(k) ==
    <<128276, 32>> \o ClientIdText(k)
      \o <<32, 106, 111, 105, 110, 101, 100, 32, 116, 104, 101, 32, 99, 104, 97,
      116>>

\* f"📤 {client_id} left the chat"
left_msg(k) ==
    <<128228, 32>> \o ClientIdText(k)
      \o <<32, 108, 101, 102, 116, 32, 116, 104, 101, 32, 99, 104, 97, 116>>

\* "❌ Invalid message format"
error_msg ==
    <<10060, 32, 73, 110, 118, 97, 108, 105, 100, 32, 109, 101, 115, 115,
      97, 103, 101, 32, 102, 111, 114, 109, 97, 116>>

\* ', '.join(self.clients.keys())
RECURSIVE join_keys(_)
join_keys(keys) ==
    IF keys = <<>> THEN <<>>
    ELSE IF Len(keys) = 1 THEN ClientIdText(keys[1])
    ELSE ClientIdText(keys[1]) \o <<44, 32>> \o join_keys(Tail(keys))

\* f"👥 Connected users: {', '.join(self.clients.keys())}"
user_list(keys) ==
    <<128101, 32, 67, 111, 110, 110, 101, 99, 116, 101, 100, 32, 117, 115,
      101, 114, 115, 58, 32>>
      \o join_keys(keys)

\* The reply of /help.
help_msg ==
    <<128304, 32, 65, 118, 97, 105, 108, 97, 98, 108, 101, 32, 67, 111, 109,
      109, 97, 110, 100, 115, 58, 10, 47, 117, 115, 101, 114, 115, 32, 45,
      32, 83, 104, 111, 119, 32, 99, 111, 110, 110, 101, 99, 116, 101, 100,
      32, 117, 115, 101, 114, 115, 10, 47, 116, 105, 109, 101, 32, 45, 32,
      83, 104, 111, 119, 32, 115, 101, 114, 118, 101, 114, 32, 116, 105,
      109, 101, 10, 47, 98, 102, 32, 60, 99, 111, 100, 101, 62, 32, 45, 32,
      69, 120, 101, 99, 117, 116, 101, 32, 66, 114, 97, 105, 110, 102, 117,
      99, 107, 32, 99, 111, 100, 101, 10, 47, 104, 101, 108, 112, 32, 45,
      32, 83, 104, 111, 119, 32, 116, 104, 105, 115, 32, 104, 101, 108, 112,
      10, 47, 113, 117, 105, 116, 32, 45, 32, 68, 105, 115, 99, 111, 110,
      110, 101, 99, 116, 32, 102, 114, 111, 109, 32, 99, 104, 97, 116>>

\* "❓ Unknown command. Type /help for available commands."
unknown_msg ==
    <<10067, 32, 85, 110, 107, 110, 111, 119, 110, 32, 99, 111, 109, 109,
      97, 110, 100, 46, 32, 84, 121, 112, 101, 32, 47, 104, 101, 108, 112,
      32, 102, 111, 114, 32, 97, 118, 97, 105, 108, 97, 98, 108, 101, 32,
      99, 111, 109, 109, 97, 110, 100, 115, 46>>

\* f"🧠 BF Output: '{bf_output}'"
bf_output_msg(bf_output) ==
    <<129504, 32, 66, 70, 32, 79, 117, 116, 112, 117, 116, 58, 32, 39>>
      \o bf_output \o <<39>>

\* "❌ BF Error: Program failed or exceeded step limit"
bf_error_msg ==
    <<10060, 32, 66, 70, 32, 69, 114, 114, 111, 114, 58, 32, 80, 114, 111,
      103, 114, 97, 109, 32, 102, 97, 105, 108, 101, 100, 32, 111, 114, 32,
      101, 120, 99, 101, 101, 100, 101, 100, 32, 115, 116, 101, 112, 32,
      108, 105, 109, 105, 116>>

\* The text the server composed for a message it sends in clear, by the
\* message's kind as the outbox records it.
composed(m) ==
    CASE m.kind = "welcome" -> welcome(m.who)
      [] m.kind = "join" -> joined_msg(m.who)
      [] m.kind = "leave" -> left_msg(m.who)
      [] m.kind = "error" -> error_msg
      [] m.kind = "users" -> user_list(m.txt)
      [] m.kind = "reply" -> IF m.txt = TextHelp THEN help_msg ELSE unknown_msg
      [] m.kind = "bf_output" -> bf_output_msg(m.txt)
      [] m.kind = "bf_error" -> bf_error_msg
      [] OTHER -> m.txt

\* What the server hands to socket.send for a message: broadcast_message
\* hands over the encrypted text; the welcome, broadcast_system_message and
\* send_to_client hand over the text as composed.
send_text(m) == IF m.kind = "chat" THEN m.txt ELSE composed(m)

\* The registries /users can list: identifiers in the order they were
\* handed out.
Registries ==
    {s \in UNION {[1..n -> Ids] : n \in 1..MaxClients} :
        \A i \in 1..Len(s) : \A j \in 1..Len(s) : i < j => s[i] < s[j]}

\* The chat lines relayed: texts validate_message accepts.
ChatAlphabet == {32, 104, 105, 126}
ChatLines == UNION {[1..n -> ChatAlphabet] : n \in 1..MaxLen}

\* A "/x": a command handle_command does not know.
TextSlashX == <<47, 120>>

\* The messages followed, each with the text the server composed.
ClearMessages ==
    {Msg("welcome", k, <<>>) : k \in Ids}
      \cup {Msg("join", k, <<>>) : k \in Ids}
      \cup {Msg("leave", k, <<>>) : k \in Ids}
      \cup {Msg("error", k, <<>>) : k \in Ids}
      \cup {Msg("reply", k, c) : k \in Ids, c \in {TextHelp, TextSlashX}}
      \cup {Msg("users", s[1], s) : s \in Registries}
      \cup {Msg("bf_output", k, TextGdkkn) : k \in Ids}
      \cup {Msg("bf_error", k, <<>>) : k \in Ids}

WireCases ==
    {[msg |-> m, message |-> composed(m)] : m \in ClearMessages}
      \cup {[msg |-> Msg("chat", k, encrypt_message(broadcast_msg(k, line))),
             message |-> broadcast_msg(k, line)] : k \in Ids, line \in ChatLines}

WireInit ==
    /\ \E c \in WireCases :
         cl = [pc |-> "composed", msg |-> c.msg, message |-> c.message,
               sent |-> <<>>, data |-> <<>>, message_to_display |-> <<>>]
    /\ rt_msg = <<>>
    /\ rt_encrypted = <<>>
    /\ rt_decrypted = <<>>
    /\ rt_pc = "idle"
    /\ ex = ExIdle
    /\ SrvInit

\* socket.send(<text>.encode('utf-8'))
ServerSend ==
    /\ cl.pc = "composed"
    /\ cl' = [cl EXCEPT !.pc = "sent", !.sent = Utf8Encode(send_text(cl.msg))]
    /\ UNCHANGED <<rt_msg, rt_encrypted, rt_decrypted, rt_pc, ex>>
    /\ UNCHANGED srvVars

\* data = self.socket.recv(1024).decode('utf-8', errors='ignore'); the
\* message arrives in one piece.
ClientRecv ==
    /\ cl.pc = "sent"
    /\ cl' = [cl EXCEPT !.pc = "received", !.data = recv_decode(cl.sent)]
    /\ UNCHANGED <<rt_msg, rt_encrypted, rt_decrypted, rt_pc, ex>>
    /\ UNCHANGED srvVars

\* message_to_display = self.protocol.decrypt_message(data), for every
\* message received; self.display_received_message(message_to_display).
ClientDisplay ==
    /\ cl.pc = "received"
    /\ cl.data # <<>>
    /\ cl' = [cl EXCEPT !.pc = "displayed",
                        !.message_to_display = decrypt_message(cl.data)]
    /\ UNCHANGED <<rt_msg, rt_encrypted, rt_decrypted, rt_pc, ex>>
    /\ UNCHANGED srvVars

WireNext == ServerSend \/ ClientRecv \/ ClientDisplay

WireSpec == WireInit /\ [][WireNext]_vars

(***************************************************************************)
(* Properties of the wire encoding.                                        *)
(***************************************************************************)
Displayed == cl.pc = "displayed"

\* C22: for every kind of message the server sends -- welcome line, join
\* and leave notices, command replies, error notices, relayed chat -- the
\* text the client displays is the text the server composed.
C22_WireAgreement == Displayed => cl.message_to_display = cl.message

\* The text is carried whole: what recv decodes is what send was given.
WireCarries == cl.pc \in {"received", "displayed"} => cl.data = send_text(cl.msg)

\* Relayed chat, the one kind the server encrypts, is displayed as composed.
ChatAgrees ==
    (Displayed /\ cl.msg.kind = "chat") => cl.message_to_display = cl.message

\* Every message sent in clear is displayed as something else: the client
\* decrypts what was never encrypted.
ClearGarbled ==
    (Displayed /\ cl.msg.kind # "chat") => cl.message_to_display # cl.message

\* The welcome of Client_1 has been displayed.
WelcomeDisplayed == Displayed /\ cl.msg = Msg("welcome", 1, <<>>)

\* What the client shows for it: every character one code point lower,
\* the emoji gone.
WelcomeShown ==
    WelcomeDisplayed =>
      cl.message_to_display =
        <<31, 86, 100, 107, 98, 110, 108, 100, 31, 115, 110, 31, 65, 113,
         96, 104, 109, 101, 116, 98, 106, 31, 66, 103, 96, 115, 32, 31,
         88, 110, 116, 31, 96, 113, 100, 31, 66, 107, 104, 100, 109, 115,
         94, 48>>

=============================================================================
